---- MODULE Spec2Model ----
\* Token price service: the recurring price update (TokenPriceUpdateService),
\* its per-token pipeline (price source -> Kafka publish -> repository save),
\* the Kafka producer's retry loop and the graceful shutdown.
\*
\* One action is one run-to-completion step of the Node.js event loop: the
\* synchronous code from a call, a timer firing or the resolution of an awaited
\* promise up to the next await that really suspends.
EXTENDS Integers, FiniteSets, Sequences, TLC

\* ---------------------------------------------------------------- bounds
NumTokens == 3          \* tokens in the store in the batch scenario
NumLifecycleTokens == 1 \* tokens in the store in the lifecycle scenarios
NumPrices == 2          \* distinct prices the price source can return
NumTicks == 2           \* updatePrices executions that can be recorded at once
NumStops == 2           \* stop() calls that can be recorded at once
MaxWaiting == 1         \* stop() calls that can be in their wait loop at once
NumDestroys == 3        \* onModuleDestroy() calls that are followed
NumKafkaDestroys == 2   \* KafkaProducerService.onModuleDestroy() calls in flight at once
MaxSkipWarnings == 1    \* 'skipping this iteration' warnings counted per tick
MaxTimers == 2          \* interval handles that can be live at once
MaxStartWarnings == 1   \* 'already running' warnings of start() that are counted
PollCap == 32           \* polls a single stop() call is followed for

\* ---------------------------------------------------- program constants
maxRetries == 3
retryDelay == 1000
maxAttempts == 30

Prices == 1..NumPrices
TickIds == 1..NumTicks
StopIds == 1..NumStops
DestroyIds == 1..NumDestroys
KafkaDestroyIds == 1..NumKafkaDestroys
TimerIds == 1..MaxTimers

VARIABLES
    isRunning,        \* TokenPriceUpdateService.isRunning
    isProcessing,     \* TokenPriceUpdateService.isProcessing
    timer,            \* TokenPriceUpdateService.timer (0 = undefined)
    timers,           \* interval timers armed in the event loop
    shutdownPromise,  \* TokenPriceUpdateService.shutdownPromise: its stop() call (0 = unset)
    isConnected,      \* KafkaProducerService.isConnected
    connectPc,        \* onModuleInit(): "none" | "connecting" | "connected" (returned) | "failed" (threw)
    kafkaDestroys,    \* KafkaProducerService.onModuleDestroy() calls: position, outcome
    closes,           \* producer.disconnect() calls made so far
    db,               \* tokens table: token id -> stored price
    ticks,            \* executions of updatePrices() and their token pipelines
    stops,            \* stop() calls: position, local attempts, what they logged
    destroys,         \* onModuleDestroy() calls: "none" | "awaiting" (shutdownPromise) | "returned"
    skipWarnings,     \* 'Previous update still in progress' warnings this tick
    startWarnings     \* 'Price update service is already running' warnings so far

vars == <<isRunning, isProcessing, timer, timers, shutdownPromise, isConnected,
          connectPc, kafkaDestroys, closes, db, ticks, stops, destroys, skipWarnings,
          startWarnings>>

kafkaVars == <<isConnected, connectPc, kafkaDestroys, closes>>

schedVars == <<isRunning, isProcessing, timer, timers>>

Tokens == DOMAIN db

Min(S) == CHOOSE x \in S : \A y \in S : x <= y

RECURSIVE Pow2(_)
Pow2(n) == IF n <= 0 THEN 1 ELSE 2 * Pow2(n - 1)

\* ------------------------------------------------------- token pipeline
\* One call of updateTokenPrice(token), as far as it has got.
\*   pc: "none" | "fetch" | "sending" | "backoff" | "saving"
\*       | "noop" | "saved" | "failed"
\*   id: token.id;  key, value: the arguments of sendWithRetry;
\*   sent: the (key, value) pairs handed to producer.send() so far
\*   calls: calls of sendPriceUpdateMessage;  saves: calls of repository.save
NoItem ==
    [pc |-> "none", old |-> 0, new |-> 0, event |-> FALSE, attempt |-> 0,
     sends |-> 0, waited |-> 0, delay |-> 0, published |-> FALSE,
     saves |-> 0, err |-> "none", errAttempts |-> 0,
     id |-> 0, key |-> 0, value |-> <<>>, sent |-> {}, calls |-> 0]

Settled(it) == it.pc \in {"noop", "saved", "failed"}

Rejected(it) == it.pc = "failed"

\* updateTokenPrice up to its first await: oldPrice is read and the price
\* source is called.
UpdateTokenPriceStart(id, price) ==
    [NoItem EXCEPT !.pc = "fetch", !.id = id, !.old = price]

Reject(it, why) == [it EXCEPT !.pc = "failed", !.err = why]

\* producer.send() is called for the given attempt.
SendAttempt(it, n) ==
    [it EXCEPT !.pc = "sending", !.attempt = n, !.sends = @ + 1, !.delay = 0,
               !.sent = @ \cup {[key |-> it.key, value |-> it.value]}]

\* the failure is caught, a default price 0 is taken and published
PriceSourceFailed_Defaulted(it) ==
    SendAttempt([it EXCEPT !.new = 0, !.event = TRUE, !.err = "price"], 1)

\* getRandomPriceForToken() rejects: updateTokenPrice rejects at its first await
PriceSourceFailed(it) == Reject(it, "price")

\* the failed save is issued once more before the pipeline gives up
SaveFailed_Retry(it) ==
    IF it.saves < 2 THEN [it EXCEPT !.saves = @ + 1] ELSE Reject(it, "save")

\* tokenRepository.save() rejects: updateTokenPrice rejects, nothing is undone
SaveFailed(it) == Reject(it, "save")

\* the ceiling is twice as high
CanRetry_NoCeiling(attempt) == attempt < maxRetries + maxRetries

CanRetry_OffByOne(attempt) == attempt <= maxRetries

CanRetry(attempt) == attempt < maxRetries

\* no exponential growth: every wait is the base delay
BackoffDelay_Constant(attempt) == retryDelay

BackoffDelay_Shifted(attempt) == retryDelay * Pow2(attempt)

BackoffDelay(attempt) == retryDelay * Pow2(attempt - 1)

\* sendWithRetry resolved: token.price is set and repository.save() is called
Published(it) ==
    [it EXCEPT !.pc = "saving", !.published = TRUE, !.saves = @ + 1, !.delay = 0]

\* the terminal error is swallowed and the save goes ahead
SendFailed_Swallowed(it) ==
    IF CanRetry(it.attempt)
    THEN [it EXCEPT !.pc = "backoff", !.delay = BackoffDelay(it.attempt),
                    !.waited = @ + BackoffDelay(it.attempt)]
    ELSE [it EXCEPT !.pc = "saving", !.saves = @ + 1, !.delay = 0,
                    !.err = "exhausted", !.errAttempts = maxRetries]

\* catch block of sendWithRetry for the attempt that just failed
SendFailed(it) ==
    IF CanRetry(it.attempt)
    THEN [it EXCEPT !.pc = "backoff", !.delay = BackoffDelay(it.attempt),
                    !.waited = @ + BackoffDelay(it.attempt)]
    ELSE [Reject(it, "exhausted") EXCEPT !.errAttempts = maxRetries]

BackoffElapsed(it) == SendAttempt(it, it.attempt + 1)

\* the message of updateTokenPrice for the token and its two prices
CreateTokenPriceUpdateMessage(it) ==
    [tokenId |-> it.id, oldPrice |-> it.old, newPrice |-> it.new]

\* JSON.stringify(message): the fields' values in the order of the object
Serialize(message) == <<message.tokenId, message.oldPrice, message.newPrice>>

\* the old price is taken as the key
MessageKey_Symbol(message) == message.oldPrice

\* the key handed to sendWithRetry
MessageKey(message) == message.tokenId

\* sendWithRetry(message.tokenId, value) is entered: its first producer.send()
FirstSend(it) ==
    LET message == CreateTokenPriceUpdateMessage(it) IN
    SendAttempt([it EXCEPT !.key = MessageKey(message), !.value = Serialize(message)], 1)

\* the isConnected check is left out
SendPriceUpdateMessage_NoCheck(it, connected) == FirstSend(it)

\* sendPriceUpdateMessage up to the first producer.send()
SendPriceUpdateMessage(it, connected) ==
    IF ~connected THEN Reject(it, "notconnected") ELSE FirstSend(it)

PriceChanged_Always(oldPrice, newPrice) == TRUE

PriceChanged(oldPrice, newPrice) == oldPrice # newPrice

\* updateTokenPrice from the price source's answer on. The message built from a
\* stored token and an obtained price is taken to pass the schema check of
\* sendPriceUpdateMessage.
PriceObtained(it, newPrice, connected) ==
    IF PriceChanged(it.old, newPrice)
    THEN SendPriceUpdateMessage([it EXCEPT !.new = newPrice, !.event = TRUE,
                                           !.calls = @ + 1], connected)
    ELSE [it EXCEPT !.pc = "noop", !.new = newPrice]


\* ------------------------------------------------------------ a tick
\*   pc: "idle" | "loading" | "items" | "done" | "loadfailed"
\*       | "threw" (updatePrices() rejected: its caller's error handler runs)
\*   failures: the number in the 'token(s) failed to update' warning
\*   log: the error records written for the failed tokens, by token
NoLog == [i \in {} |-> 0]

NoTick ==
    [pc |-> "idle", items |-> [i \in Tokens |-> NoItem], failures |-> 0, log |-> NoLog]

Active(t) == ticks[t].pc \in {"loading", "items"}

ActiveTicks == {t \in TickIds : Active(t)}

FreeTicks == {t \in TickIds : ~Active(t)}

\* Promise.race instead: the first pipeline to settle ends the wait
AllSettled_First(items) == \E i \in DOMAIN items : Settled(items[i])

\* Promise.all instead: the first rejection ends the wait
AllSettled_FailFast(items) ==
    \/ \E i \in DOMAIN items : Rejected(items[i])
    \/ \A i \in DOMAIN items : Settled(items[i])

\* Promise.allSettled: every pipeline has resolved or rejected
AllSettled(items) == \A i \in DOMAIN items : Settled(items[i])

FailureCount(items) == Cardinality({i \in DOMAIN items : Rejected(items[i])})

\* the record logged for one rejected pipeline: logger.error with the one
\* message 'Failed to update token: ' followed by the rejection's reason
FailureLogRecord(it) ==
    [level |-> "error", kind |-> "Failed to update token", reason |-> it.err]

\* failures.forEach(...): one record per rejected pipeline
FailureLog(items) ==
    [i \in {j \in DOMAIN items : Rejected(items[j])} |-> FailureLogRecord(items[i])]

UpdatePricesGuard_Missing == TRUE

UpdatePricesGuard == ~isProcessing

TimerCallbackGuard == ~isProcessing

\* updatePrices() past its guard: the flag is set and find() is issued
BeginTick ==
    /\ FreeTicks # {}
    /\ isProcessing' = TRUE
    /\ ticks' = [ticks EXCEPT ![Min(FreeTicks)] = [NoTick EXCEPT !.pc = "loading"]]
    /\ skipWarnings' = 0

\* a call of updatePrices()
UpdatePrices ==
    IF UpdatePricesGuard
    THEN BeginTick
    ELSE UNCHANGED <<isProcessing, ticks, skipWarnings>>

\* tokenRepository.find() resolves: every token's pipeline starts
LoadOk(t) ==
    /\ ticks[t].pc = "loading"
    /\ ticks' = [ticks EXCEPT ![t].pc = "items",
                              ![t].items = [i \in Tokens |-> UpdateTokenPriceStart(i, db[i])]]
    /\ UNCHANGED <<schedVars, shutdownPromise, kafkaVars, db, stops, destroys, skipWarnings, startWarnings>>

\* the catch block without the finally block: the flag stays set
LoadFail_NoRelease(t) ==
    /\ ticks[t].pc = "loading"
    /\ ticks' = [ticks EXCEPT ![t].pc = "loadfailed"]
    /\ UNCHANGED <<schedVars, shutdownPromise, kafkaVars, db, stops, destroys, skipWarnings, startWarnings>>

\* the catch block also gives the scheduler up: the interval is cleared
LoadFail_StopsTimer(t) ==
    /\ ticks[t].pc = "loading"
    /\ ticks' = [ticks EXCEPT ![t].pc = "loadfailed"]
    /\ isProcessing' = FALSE
    /\ timers' = timers \ {timer}
    /\ timer' = 0
    /\ UNCHANGED <<isRunning, shutdownPromise, kafkaVars, db, stops, destroys, skipWarnings, startWarnings>>

\* no catch block, and Promise.all: a failed load or pipeline rejects updatePrices()
UpdatePricesOutcome_Raises(loaded, items) ==
    IF ~loaded \/ \E i \in DOMAIN items : Rejected(items[i]) THEN "threw" ELSE "done"

\* how updatePrices() ends: a failed load is caught and logged, and
\* Promise.allSettled resolves whatever the pipelines did
UpdatePricesOutcome(loaded, items) == IF loaded THEN "done" ELSE "loadfailed"

\* tokenRepository.find() rejects: catch, then finally
LoadFail(t) ==
    /\ ticks[t].pc = "loading"
    /\ ticks' = [ticks EXCEPT ![t].pc = UpdatePricesOutcome(FALSE, ticks[t].items)]
    /\ isProcessing' = FALSE
    /\ UNCHANGED <<isRunning, timer, timers, shutdownPromise, kafkaVars, db, stops,
                   destroys, skipWarnings, startWarnings>>

ItemStep(t, i, next) ==
    /\ ticks' = [ticks EXCEPT ![t].items[i] = next]
    /\ UNCHANGED <<schedVars, shutdownPromise, kafkaVars, db, stops, destroys, skipWarnings, startWarnings>>

PriceOk(t, i, p) ==
    /\ ticks[t].pc = "items"
    /\ ticks[t].items[i].pc = "fetch"
    /\ ItemStep(t, i, PriceObtained(ticks[t].items[i], p, isConnected))

PriceFail(t, i) ==
    /\ ticks[t].pc = "items"
    /\ ticks[t].items[i].pc = "fetch"
    /\ ItemStep(t, i, PriceSourceFailed(ticks[t].items[i]))

SendOk(t, i) ==
    /\ ticks[t].pc = "items"
    /\ ticks[t].items[i].pc = "sending"
    /\ ItemStep(t, i, Published(ticks[t].items[i]))

\* a failed send marks the producer as not connected
ConnectedAfterSendFailure_Dropped(connected) == FALSE

\* the catch block of sendWithRetry does not touch the connection flag
ConnectedAfterSendFailure(connected) == connected

\* producer.send() rejects
SendFail(t, i) ==
    /\ ticks[t].pc = "items"
    /\ ticks[t].items[i].pc = "sending"
    /\ ticks' = [ticks EXCEPT ![t].items[i] = SendFailed(ticks[t].items[i])]
    /\ isConnected' = ConnectedAfterSendFailure(isConnected)
    /\ UNCHANGED <<schedVars, shutdownPromise, connectPc, kafkaDestroys, closes, db, stops,
                   destroys, skipWarnings, startWarnings>>

RetryTimer(t, i) ==
    /\ ticks[t].pc = "items"
    /\ ticks[t].items[i].pc = "backoff"
    /\ ItemStep(t, i, BackoffElapsed(ticks[t].items[i]))

\* the price read at the start of the pipeline is written back
SavedPrice_Old(it) == it.old

\* token.price = newPrice: the price the saved entity carries
SavedPrice(it) == it.new

\* tokenRepository.save() resolves
SaveOk(t, i) ==
    /\ ticks[t].pc = "items"
    /\ ticks[t].items[i].pc = "saving"
    /\ db' = [db EXCEPT ![i] = SavedPrice(ticks[t].items[i])]
    /\ ticks' = [ticks EXCEPT ![t].items[i].pc = "saved"]
    /\ UNCHANGED <<schedVars, shutdownPromise, kafkaVars, stops, destroys, skipWarnings, startWarnings>>

SaveFail(t, i) ==
    /\ ticks[t].pc = "items"
    /\ ticks[t].items[i].pc = "saving"
    /\ ItemStep(t, i, SaveFailed(ticks[t].items[i]))

\* a firing dropped during the tick is replayed when the tick ends
TickComplete_Requeue(t) ==
    /\ ticks[t].pc = "items"
    /\ AllSettled(ticks[t].items)
    /\ ticks' = [ticks EXCEPT ![t] =
            IF skipWarnings > 0
            THEN [NoTick EXCEPT !.pc = "loading"]
            ELSE [@ EXCEPT !.pc = "done", !.failures = FailureCount(ticks[t].items),
                           !.log = FailureLog(ticks[t].items)]]
    /\ isProcessing' = (skipWarnings > 0)
    /\ UNCHANGED <<isRunning, timer, timers, shutdownPromise, kafkaVars, db, stops,
                   destroys, skipWarnings, startWarnings>>

\* Promise.allSettled resolves: failures are logged, finally clears the flag
TickComplete(t) ==
    /\ ticks[t].pc = "items"
    /\ AllSettled(ticks[t].items)
    /\ ticks' = [ticks EXCEPT ![t].pc = UpdatePricesOutcome(TRUE, ticks[t].items),
                              ![t].failures = FailureCount(ticks[t].items),
                              ![t].log = FailureLog(ticks[t].items)]
    /\ isProcessing' = FALSE
    /\ UNCHANGED <<isRunning, timer, timers, shutdownPromise, kafkaVars, db, stops,
                   destroys, skipWarnings, startWarnings>>

\* ------------------------------------------------------------ scheduler
FreeTimers == TimerIds \ timers

\* start() without its immediate update: the first tick waits for the timer
StartInitialUpdate_Missing == UNCHANGED <<isProcessing, ticks, skipWarnings>>

\* start() begins its tick whether or not one is in progress
StartInitialUpdate_Unguarded == BeginTick

\* the immediate this.updatePrices() at the end of start()
StartInitialUpdate == UpdatePrices

\* start() without its guard
StartGuard_Missing == FALSE

\* the guard of start(): the scheduler is already running
StartGuard == isRunning

\* a call of start(): a warning and nothing else on a running scheduler;
\* otherwise the flag is set, the interval is armed and updatePrices() is called
Start ==
    /\ IF StartGuard
       THEN /\ startWarnings < MaxStartWarnings
            /\ startWarnings' = startWarnings + 1
            /\ UNCHANGED <<schedVars, ticks, skipWarnings>>
       ELSE /\ FreeTimers # {}
            /\ isRunning' = TRUE
            /\ timer' = Min(FreeTimers)
            /\ timers' = timers \cup {Min(FreeTimers)}
            /\ StartInitialUpdate
            /\ UNCHANGED startWarnings
    /\ UNCHANGED <<shutdownPromise, kafkaVars, db, stops, destroys>>

\* the interval callback finds a tick in progress
TimerSkip ==
    /\ timers # {}
    /\ ~TimerCallbackGuard
    /\ skipWarnings < MaxSkipWarnings
    /\ skipWarnings' = skipWarnings + 1
    /\ UNCHANGED <<schedVars, shutdownPromise, kafkaVars, db, ticks, stops, destroys, startWarnings>>

\* the interval callback calls updatePrices()
TimerFire ==
    /\ timers # {}
    /\ TimerCallbackGuard
    /\ UpdatePrices
    /\ UNCHANGED <<isRunning, timer, timers, shutdownPromise, kafkaVars, db, stops, destroys, startWarnings>>

\* ------------------------------------------------------------- shutdown
\* one stop() call:  pc: "none" | "waiting" | "returned"
\*   ran: the call got past the isRunning guard;  waited: it entered the wait
\*   loop;  forced: it logged 'Forced shutdown after timeout';
\*   attempts: the loop's local counter
NoStop == [pc |-> "none", attempts |-> 0, ran |-> FALSE, waited |-> FALSE, forced |-> FALSE]

TimersAfterClear_Kept == timers

TimersAfterClear == timers \ {timer}

\* stop() without its wait loop
StopKeepsWaiting_NoWait(attempts) == isProcessing /\ attempts < 0

StopKeepsWaiting_NoLimit(attempts) == isProcessing

StopKeepsWaiting_Short(attempts) == isProcessing /\ attempts < maxAttempts - 1

\* the while condition of stop(), read after attempts++
StopKeepsWaiting(attempts) == isProcessing /\ attempts < maxAttempts

Waiting == {s \in StopIds : stops[s].pc = "waiting"}

\* stop() without its guard
StopGuard_Missing == FALSE

\* the guard of stop(): the scheduler is not running
StopGuard == ~isRunning

\* stop() up to its first await (or to its return)
StopBody(s) ==
    IF StopGuard
    THEN /\ stops' = [stops EXCEPT ![s] = [NoStop EXCEPT !.pc = "returned"]]
         /\ UNCHANGED schedVars
    ELSE /\ isRunning' = FALSE
         /\ timers' = TimersAfterClear
         /\ timer' = 0
         /\ UNCHANGED isProcessing
         /\ StopKeepsWaiting(0) => Cardinality(Waiting) < MaxWaiting
         /\ stops' = [stops EXCEPT ![s] =
                [NoStop EXCEPT !.pc = IF StopKeepsWaiting(0) THEN "waiting" ELSE "returned",
                               !.waited = StopKeepsWaiting(0),
                               !.ran = TRUE]]

\* a record can be reused once its call has returned and nothing holds its promise
FreeStops == {s \in StopIds : stops[s].pc # "waiting" /\ s # shutdownPromise}

\* a direct call of stop()
StopCall ==
    /\ FreeStops # {}
    /\ StopBody(Min(FreeStops))
    /\ UNCHANGED <<shutdownPromise, kafkaVars, db, ticks, destroys, skipWarnings, startWarnings>>

\* callers of onModuleDestroy() awaiting shutdownPromise return when its stop() returns
Resume(s, returned) ==
    [d \in DestroyIds |->
        IF s = shutdownPromise /\ returned /\ destroys[d] = "awaiting"
        THEN "returned" ELSE destroys[d]]

\* the forced shutdown abandons the tick: its pipelines are dropped
TicksAfterForcedShutdown_Cancelled ==
    [t \in TickIds |-> IF Active(t) THEN [ticks[t] EXCEPT !.pc = "done"] ELSE ticks[t]]

\* the forced-shutdown branch of stop() only logs its warning
TicksAfterForcedShutdown == ticks

\* the 1 s timeout of stop()'s wait loop fires
Poll(s) ==
    /\ stops[s].pc = "waiting"
    /\ stops[s].attempts < PollCap
    /\ LET a == stops[s].attempts + 1 IN
         /\ stops' = [stops EXCEPT ![s] =
                IF StopKeepsWaiting(a)
                THEN [@ EXCEPT !.attempts = a]
                ELSE [@ EXCEPT !.pc = "returned", !.attempts = 0, !.forced = isProcessing]]
         /\ destroys' = Resume(s, ~StopKeepsWaiting(a))
         /\ ticks' = IF ~StopKeepsWaiting(a) /\ isProcessing
                     THEN TicksAfterForcedShutdown
                     ELSE ticks
    /\ UNCHANGED <<schedVars, shutdownPromise, kafkaVars, db, skipWarnings, startWarnings>>

\* the calls not made yet
FreeDestroys == {d \in DestroyIds : destroys[d] = "none"}

\* every call runs stop() anew
NeedsStop_Always == TRUE

\* the test of onModuleDestroy(): no shutdown has been begun yet
NeedsStop == shutdownPromise = 0

\* a call of TokenPriceUpdateService.onModuleDestroy()
Destroy ==
    /\ FreeDestroys # {}
    /\ IF NeedsStop
       THEN /\ FreeStops # {}
            /\ shutdownPromise' = Min(FreeStops)
            /\ StopBody(Min(FreeStops))
       ELSE UNCHANGED <<shutdownPromise, schedVars, stops>>
    /\ destroys' = [destroys EXCEPT ![Min(FreeDestroys)] =
            IF stops'[shutdownPromise'].pc = "returned" THEN "returned" ELSE "awaiting"]
    /\ UNCHANGED <<kafkaVars, db, ticks, skipWarnings, startWarnings>>

\* ------------------------------------------------------- Kafka producer
\* KafkaProducerService.onModuleInit(): producer.connect() is called
KafkaInit ==
    /\ connectPc = "none"
    /\ connectPc' = "connecting"
    /\ UNCHANGED <<schedVars, shutdownPromise, isConnected, kafkaDestroys, closes, db, ticks,
                   stops, destroys, skipWarnings, startWarnings>>

ConnectOk ==
    /\ connectPc = "connecting"
    /\ connectPc' = "connected"
    /\ isConnected' = TRUE
    /\ UNCHANGED <<schedVars, shutdownPromise, kafkaDestroys, closes, db, ticks,
                   stops, destroys, skipWarnings, startWarnings>>

\* the error is logged and swallowed: onModuleInit() returns normally
ConnectRejected_Swallowed(connected) == [connected |-> connected, pc |-> "connected"]

\* catch block of connect(): the error is logged and rethrown, the flag untouched
ConnectRejected(connected) == [connected |-> connected, pc |-> "failed"]

\* producer.connect() rejects: connect() and onModuleInit() reject
ConnectFail ==
    /\ connectPc = "connecting"
    /\ connectPc' = ConnectRejected(isConnected).pc
    /\ isConnected' = ConnectRejected(isConnected).connected
    /\ UNCHANGED <<schedVars, shutdownPromise, kafkaDestroys, closes, db, ticks,
                   stops, destroys, skipWarnings, startWarnings>>

\* one call of KafkaProducerService.onModuleDestroy()
\*   pc: "none" | "closing" | "returned" | "threw"
\*   outcome: "none" | "skipped" (was not connected) | "closed" | "error" | "timeout"
NoKafkaDestroy == [pc |-> "none", outcome |-> "none"]

\* how the race of producer.disconnect() and the 10 s timeout can settle
CloseOutcomes == {"closed", "error", "timeout"}

FreeKafkaDestroys == {k \in KafkaDestroyIds : kafkaDestroys[k].pc # "closing"}

\* KafkaProducerService.onModuleDestroy() up to its await
KafkaDestroy ==
    /\ FreeKafkaDestroys # {}
    /\ IF ~isConnected
       THEN /\ kafkaDestroys' = [kafkaDestroys EXCEPT ![Min(FreeKafkaDestroys)] =
                    [pc |-> "returned", outcome |-> "skipped"]]
            /\ UNCHANGED closes
       ELSE /\ kafkaDestroys' = [kafkaDestroys EXCEPT ![Min(FreeKafkaDestroys)] =
                    [pc |-> "closing", outcome |-> "none"]]
            /\ closes' = closes + 1
    /\ UNCHANGED <<schedVars, shutdownPromise, isConnected, connectPc, db, ticks,
                   stops, destroys, skipWarnings, startWarnings>>

\* the catch block rethrows and leaves the flag as it was
DisconnectSettled_Rethrow(outcome, connected) ==
    IF outcome = "closed"
    THEN [connected |-> FALSE, pc |-> "returned"]
    ELSE [connected |-> connected, pc |-> "threw"]

\* after the race has settled: the try body's tail, or the catch block
DisconnectSettled(outcome, connected) ==
    IF outcome = "closed"
    THEN [connected |-> FALSE, pc |-> "returned"]
    ELSE [connected |-> FALSE, pc |-> "returned"]

\* the race of producer.disconnect() and the 10 s timeout settles
KafkaDestroyDone(k) ==
    /\ kafkaDestroys[k].pc = "closing"
    /\ \E o \in CloseOutcomes :
          /\ kafkaDestroys' = [kafkaDestroys EXCEPT ![k] =
                  [pc |-> DisconnectSettled(o, isConnected).pc, outcome |-> o]]
          /\ isConnected' = DisconnectSettled(o, isConnected).connected
    /\ UNCHANGED <<schedVars, shutdownPromise, connectPc, closes, db, ticks,
                   stops, destroys, skipWarnings, startWarnings>>

\* ------------------------------------------------------- specifications
InitPrices(n) == [(1..n) -> Prices]

InitWith(n, connected) ==
    /\ isRunning = FALSE
    /\ isProcessing = FALSE
    /\ timer = 0
    /\ timers = {}
    /\ shutdownPromise = 0
    /\ isConnected = connected
    /\ connectPc = IF connected THEN "connected" ELSE "none"
    /\ kafkaDestroys = [k \in KafkaDestroyIds |-> [pc |-> "none", outcome |-> "none"]]
    /\ closes = 0
    /\ db \in InitPrices(n)
    /\ ticks = [t \in TickIds |->
            [pc |-> "idle", items |-> [i \in 1..n |-> NoItem], failures |-> 0, log |-> NoLog]]
    /\ stops = [s \in StopIds |-> NoStop]
    /\ destroys = [d \in DestroyIds |-> "none"]
    /\ skipWarnings = 0
    /\ startWarnings = 0

TickNext ==
    \/ \E t \in TickIds : LoadOk(t) \/ LoadFail(t) \/ TickComplete(t)
    \/ \E t \in TickIds, i \in Tokens :
          \/ \E p \in Prices : PriceOk(t, i, p)
          \/ PriceFail(t, i)
          \/ SendOk(t, i)
          \/ SendFail(t, i)
          \/ RetryTimer(t, i)
          \/ SaveOk(t, i)
          \/ SaveFail(t, i)

\* Lifecycle scenario: the application has booted (the producer is connected);
\* start(), stop() and onModuleDestroy() are called in any order and number.
Init == InitWith(NumLifecycleTokens, TRUE)

Next ==
    \/ Start
    \/ TimerSkip
    \/ TimerFire
    \/ TickNext
    \/ StopCall
    \/ \E s \in StopIds : Poll(s)
    \/ Destroy

Spec == Init /\ [][Next]_vars

\* Batch scenario: several tokens, the producer connects and disconnects while
\* the scheduler runs.
InitBatch == InitWith(NumTokens, FALSE)

NextBatch ==
    \/ Start
    \/ TimerSkip
    \/ TimerFire
    \/ TickNext
    \/ KafkaInit
    \/ ConnectOk
    \/ ConnectFail

SpecBatch == InitBatch /\ [][NextBatch]_vars

\* Producer scenario: one token, the producer connects and is torn down while
\* publishes are in flight.
InitKafka == InitWith(NumLifecycleTokens, FALSE)

NextKafka ==
    \/ Start
    \/ TimerSkip
    \/ TimerFire
    \/ TickNext
    \/ KafkaInit
    \/ ConnectOk
    \/ ConnectFail
    \/ KafkaDestroy
    \/ \E k \in KafkaDestroyIds : KafkaDestroyDone(k)

SpecKafka == InitKafka /\ [][NextKafka]_vars

\* Producer scenario in which every pending call of a tick returns: the store's
\* find() and save(), the price source, producer.send() and the backoff timers.
SpecKafkaLive == InitKafka /\ [][NextKafka]_vars /\ WF_vars(TickNext)

\* The poll timeouts of stop() are timers of the event loop: each one set fires.
SpecLive == Init /\ [][Next]_vars /\ \A s \in StopIds : WF_vars(Poll(s))

\* ---------------------------------------------------------------- claims
Item(t, i) == ticks[t].items[i]

\* a step in which updatePrices() gets past its guard
TickBegins == \E t \in TickIds : ~Active(t) /\ Active(t)'

\* a step in which tick t ends
TickEnds(t) == ticks[t].pc \in {"loading", "items"} /\ ticks'[t].pc # ticks[t].pc
                /\ ticks'[t].pc # "items"

\* a step in which stop() call s returns
StopReturns(s) == stops'[s].pc = "returned" /\ stops'[s] # stops[s]

\* C1: in every reachable state at most one execution of updatePrices() is
\* past its guard, and the in-progress flag is set exactly while one is.
C1_NoOverlap ==
    /\ Cardinality(ActiveTicks) <= 1
    /\ isProcessing <=> ActiveTicks # {}

\* a tick is in progress while a stop() waits, the scheduler has been started
\* again and its timer has fired
C1_Witness ==
    /\ Cardinality(ActiveTicks) = 1
    /\ Waiting # {}
    /\ isRunning
    /\ skipWarnings > 0

\* C2: a token's save is invoked only after its publish in the same tick has
\* succeeded; a token whose publish failed (not connected, or attempts
\* exhausted) has no save invoked and its stored price is the one loaded.
C2_PublishBeforePersist ==
    \A t \in TickIds, i \in Tokens :
        LET it == Item(t, i) IN
        /\ (it.saves > 0 \/ it.pc \in {"saving", "saved"} \/ it.err = "save")
              => (it.published /\ it.sends >= 1 /\ it.err \notin {"notconnected", "exhausted"})
        /\ it.err \in {"notconnected", "exhausted"}
              => (it.pc = "failed" /\ it.saves = 0 /\ ~it.published /\ db[i] = it.old)

\* one token's publish ran out of attempts while a sibling's save went through
C2_Witness ==
    \E t \in TickIds, i, j \in Tokens :
        /\ Item(t, i).err = "exhausted"
        /\ Item(t, i).saves = 0
        /\ Item(t, j).pc = "saved"
        /\ db[j] = Item(t, j).new

\* C3: a tick ends only with every token's pipeline settled; it reports as many
\* failures as pipelines failed; every token whose publish and save succeeded
\* has its new price stored and every failed token keeps its loaded price.
C3_FailureIsolation ==
    \A t \in TickIds :
        ticks[t].pc = "done" =>
            /\ \A i \in Tokens : Item(t, i).pc \in {"noop", "saved", "failed"}
            /\ ticks[t].failures = Cardinality({i \in Tokens : Item(t, i).pc = "failed"})
            /\ \A i \in Tokens :
                  /\ Item(t, i).pc = "saved" => db[i] = Item(t, i).new
                  /\ Item(t, i).pc = "failed" => db[i] = Item(t, i).old
                  /\ Item(t, i).pc = "noop" => db[i] = Item(t, i).old

\* tokens 1, 2, 3 where only token 2's publish keeps failing
C3_Witness ==
    \E t \in TickIds :
        /\ ticks[t].pc = "done"
        /\ ticks[t].failures = 1
        /\ Item(t, 2).err = "exhausted" /\ db[2] = Item(t, 2).old
        /\ \A i \in {1, 3} :
              /\ Item(t, i).pc = "saved"
              /\ Item(t, i).new # Item(t, i).old
              /\ db[i] = Item(t, i).new

\* C4: a token whose obtained price equals its stored price gets no event, no
\* broker send and no save in that tick.
C4_NoOpSuppression ==
    \A t \in TickIds, i \in Tokens :
        LET it == Item(t, i) IN
        (it.pc \notin {"none", "fetch"} /\ it.new = it.old)
            => (it.pc = "noop" /\ ~it.event /\ it.sends = 0 /\ it.saves = 0
                /\ ~it.published)

\* a token with an unchanged price next to one whose price changed
C4_Witness ==
    \E t \in TickIds, i, j \in Tokens :
        /\ Item(t, i).pc = "noop" /\ Item(t, i).new = Item(t, i).old
        /\ db[i] = Item(t, i).old
        /\ Item(t, j).pc = "saved"

\* C5: a timer firing during a tick begins no tick and changes neither the
\* flag, the timer nor the store; the end of a tick starts no tick; a tick
\* begins only at a timer firing or a start(), with no tick in progress.
C5_SkippedNotQueued ==
    [][ /\ skipWarnings' > skipWarnings
            => (isProcessing /\ UNCHANGED <<schedVars, db, ticks>>)
        /\ \A t \in TickIds : TickEnds(t) => (ActiveTicks' = {} /\ ~isProcessing')
        /\ TickBegins => (~isProcessing /\ (timers # {} \/ (~isRunning /\ isRunning')))
      ]_vars

\* a tick has ended after a firing was dropped during it; the timer is armed
C5_Witness ==
    /\ skipWarnings > 0
    /\ ~isProcessing
    /\ ActiveTicks = {}
    /\ timers # {}
    /\ \E t \in TickIds : ticks[t].pc = "done"

\* C6: a publish never makes more than maxRetries (3) sends; when it fails
\* terminally it has made exactly 3 and the error states that number.
C6_RetryCeiling ==
    \A t \in TickIds, i \in Tokens :
        LET it == Item(t, i) IN
        /\ it.sends <= 3
        /\ it.err = "exhausted" => (it.pc = "failed" /\ it.sends = 3 /\ it.errAttempts = it.sends)

C6_Witness ==
    \E t \in TickIds, i \in Tokens :
        /\ Item(t, i).err = "exhausted"
        /\ Item(t, i).sends = 3
        /\ ticks[t].pc = "done"

\* C7: the wait after failed attempt 1 is 1000 ms and after failed attempt 2 is
\* 2000 ms; a publish that succeeds has waited 0, 1000 or 3000 ms in all after
\* 1, 2 or 3 sends, and no wait follows the successful send.
C7_BackoffSchedule ==
    \A t \in TickIds, i \in Tokens :
        LET it == Item(t, i) IN
        /\ it.pc = "backoff" =>
              /\ it.attempt \in {1, 2}
              /\ it.attempt = 1 => (it.delay = 1000 /\ it.waited = 1000)
              /\ it.attempt = 2 => (it.delay = 2000 /\ it.waited = 3000)
        /\ it.published =>
              /\ it.delay = 0
              /\ it.sends = 1 => it.waited = 0
              /\ it.sends = 2 => it.waited = 1000
              /\ it.sends = 3 => it.waited = 3000

\* attempts 1 and 2 failed, attempt 3 succeeded
C7_Witness ==
    \E t \in TickIds, i \in Tokens :
        /\ Item(t, i).published
        /\ Item(t, i).sends = 3
        /\ Item(t, i).waited = 3000

\* C8: a stop() that waits always returns, at the latest at its 30th poll,
\* whatever the tick does; it logs the forced-shutdown warning exactly when it
\* returns with the tick still in progress.
C8_BoundedShutdown ==
    /\ \A s \in StopIds : (stops[s].pc = "waiting") ~> (stops[s].pc = "returned")
    /\ [](\A s \in StopIds : stops[s].pc = "waiting" => stops[s].attempts < maxAttempts)
    /\ [][\A s \in StopIds :
            (StopReturns(s) /\ stops'[s].ran) => (stops'[s].forced <=> isProcessing')
         ]_vars

\* a stop() has returned with the warning logged and the tick still running
C8_Witness ==
    \E s \in StopIds :
        /\ stops[s].pc = "returned"
        /\ stops[s].forced
        /\ isProcessing

\* C9: a stop() on a running scheduler returns only with the in-progress flag
\* clear or at its 30th poll.
C9_StopWaits ==
    [][\A s \in StopIds :
          (StopReturns(s) /\ stops'[s].ran) =>
              \/ ~isProcessing'
              \/ (stops[s].pc = "waiting" /\ stops[s].attempts + 1 = 30)
      ]_vars

\* a stop() that waited has returned after the tick ended
C9_Witness ==
    \E s \in StopIds :
        /\ stops[s].pc = "returned"
        /\ stops[s].waited
        /\ ~stops[s].forced
        /\ ~isProcessing

\* C10 as stated: once a stop() has got past its guard, no tick ever begins.
C10_Original ==
    [][(\E s \in StopIds : stops[s].ran) => ~TickBegins]_vars

\* C10 amended: stop() disarms the timer in the step in which it begins, before
\* any wait, and no tick begins while the scheduler is not running, that is
\* until start() is called again.
C10_NoTickWhileStopped ==
    /\ [](~isRunning => timers = {})
    /\ [][ /\ \A s \in StopIds :
                (stops'[s].ran /\ stops'[s] # stops[s] /\ stops[s].pc # "waiting")
                    => (timers' = {} /\ timer' = 0 /\ ~isRunning')
           /\ TickBegins => isRunning'
         ]_vars

\* a stop() is waiting for the tick with the timer disarmed
C10_Witness ==
    /\ Waiting # {}
    /\ ~isRunning
    /\ timers = {}
    /\ ActiveTicks # {}

\* C11: when a stop() call arrives while another is waiting for the tick, it
\* does not return before that wait has ended: no stop() call returns in a
\* step that leaves another call in its wait loop.
C11_IdempotentStop ==
    [][\A s \in StopIds :
          StopReturns(s) => \A o \in StopIds \ {s} : stops'[o].pc # "waiting"
      ]_vars

\* C12: a publish issued while the producer is not connected fails at once: the
\* pipeline is rejected in the same step with the not-connected error, and it
\* has made no broker send, no retry attempt and no backoff wait (and no save).
C12_PublishRequiresConnection ==
    /\ [](\A t \in TickIds, i \in Tokens :
            LET it == Item(t, i) IN
            it.err = "notconnected" =>
                /\ it.pc = "failed" /\ it.event
                /\ it.sends = 0 /\ it.attempt = 0
                /\ it.waited = 0 /\ it.delay = 0
                /\ it.saves = 0 /\ ~it.published)
    /\ [][\A t \in TickIds, i \in Tokens :
            (Item(t, i).pc = "fetch" /\ ticks'[t].items[i].event /\ ~isConnected)
                => (ticks'[t].items[i].err = "notconnected"
                    /\ ticks'[t].items[i].pc = "failed"
                    /\ ticks'[t].items[i].sends = 0)
         ]_vars

\* a tick has ended with its token's publish refused for lack of a connection
C12_Witness ==
    \E t \in TickIds, i \in Tokens :
        /\ Item(t, i).err = "notconnected"
        /\ Item(t, i).event
        /\ Item(t, i).sends = 0
        /\ ~isConnected
        /\ ticks[t].pc = "done"
        /\ ticks[t].failures = 1

\* C13: the in-progress flag is set from the step in which a tick begins, so
\* while the store load is pending; every step that ends a tick (the load
\* failed, or all pipelines settled with any number of failures) clears it; the
\* flag is never set with no tick at work.
C13_GuaranteedRelease ==
    /\ [](\A t \in TickIds : ticks[t].pc = "loading" => isProcessing)
    /\ [](isProcessing => \E t \in TickIds : Active(t))
    /\ [][ /\ TickBegins => (isProcessing' /\ \E t \in TickIds : ticks'[t].pc = "loading")
           /\ \A t \in TickIds :
                 TickEnds(t) => (ticks'[t].pc \in {"done", "loadfailed"} /\ ~isProcessing')
         ]_vars

\* a tick has ended with a failed pipeline and the flag is clear
C13_Witness ==
    \E t \in TickIds :
        /\ ticks[t].pc = "done"
        /\ ticks[t].failures > 0
        /\ ~isProcessing
        /\ isRunning

\* C14: a tick whose store load failed has started no pipeline (no price source
\* call, no event, no send, no save) and counts no item failure; the step of
\* the failure clears the flag and leaves the timer, the running flag and the
\* store as they were; with the timer armed, the next firing can and does begin
\* a fresh tick that loads the store.
C14_LoadFailureAbortsTick ==
    /\ [](\A t \in TickIds :
            ticks[t].pc = "loadfailed" =>
                /\ \A i \in Tokens : Item(t, i) = NoItem
                /\ ticks[t].failures = 0
                /\ ~isProcessing
                /\ timers # {} =>
                      ENABLED (TimerFire /\ isProcessing'
                               /\ \E u \in TickIds :
                                     ticks'[u] = [NoTick EXCEPT !.pc = "loading"]))
    /\ [][\A t \in TickIds :
            (ticks[t].pc = "loading" /\ ticks'[t].pc = "loadfailed")
                => (~isProcessing' /\ UNCHANGED <<isRunning, timer, timers, db>>)
         ]_vars

\* the load has failed; the scheduler is running with its timer armed
C14_Witness ==
    \E t \in TickIds :
        /\ ticks[t].pc = "loadfailed"
        /\ \A i \in Tokens : Item(t, i).pc = "none"
        /\ isRunning
        /\ timer \in timers
        /\ ~isProcessing

\* a step in which start() gets past its guard
StartStep == ~isRunning /\ isRunning'

\* C15 as stated: every start() on a scheduler that is not running sets it
\* running, arms the timer and begins a tick in the same step.
C15_Original ==
    [][StartStep => (isRunning' /\ timer' \in timers' /\ TickBegins)]_vars

\* C15 amended: such a start() sets the scheduler running and arms a new timer;
\* it begins a tick in the same step unless a tick from before the start() is
\* still in progress, in which case it begins none; either way exactly one
\* tick is in progress when it returns.
C15_ImmediateFirstTick ==
    [][StartStep =>
          /\ isRunning'
          /\ timer' \in timers' /\ timer' \notin timers
          /\ isProcessing'
          /\ Cardinality(ActiveTicks') = 1
          /\ ~isProcessing => (TickBegins /\ \E t \in TickIds : ticks'[t].pc = "loading")
          /\ isProcessing => (~TickBegins /\ UNCHANGED ticks)
      ]_vars

\* the first start(): running, timer armed, the first tick loading the store
C15_Witness ==
    /\ isRunning
    /\ timer \in timers
    /\ isProcessing
    /\ \E t \in TickIds : ticks[t].pc = "loading"
    /\ \A s \in StopIds : stops[s] = NoStop
    /\ skipWarnings = 0

\* C16: a start() on a running scheduler logs its warning and changes nothing
\* else: no timer is armed, no tick begins, and the flags, the timer and the
\* ticks are as before; a running scheduler has exactly one armed timer, its own.
C16_StartWhileRunningNoOp ==
    /\ [](isRunning => timers = {timer})
    /\ [][ /\ startWarnings' # startWarnings =>
                /\ isRunning /\ isRunning'
                /\ startWarnings' = startWarnings + 1
                /\ ~TickBegins
                /\ UNCHANGED <<isRunning, isProcessing, timer, timers, ticks, db,
                               stops, destroys, shutdownPromise, skipWarnings>>
           /\ (isRunning /\ isRunning') => UNCHANGED <<timer, timers>>
         ]_vars

\* start() has been called on a running scheduler in the middle of a tick
C16_Witness ==
    /\ startWarnings > 0
    /\ isRunning
    /\ timers = {timer}
    /\ \E t \in TickIds : ticks[t].pc = "items"

\* C17: a token whose price source call failed is rejected there: no event, no
\* send and no save for it, its stored price is the one loaded; the failure
\* changes no other token's pipeline and does not end the tick; the ended tick
\* counts it among its failures.
C17_PriceSourceFailure ==
    /\ [](\A t \in TickIds, i \in Tokens :
            LET it == Item(t, i) IN
            it.err = "price" =>
                /\ it.pc = "failed"
                /\ ~it.event /\ it.sends = 0 /\ ~it.published /\ it.saves = 0
                /\ db[i] = it.old
                /\ ticks[t].pc = "done" =>
                      ticks[t].failures =
                          1 + Cardinality({j \in Tokens \ {i} : Item(t, j).pc = "failed"}))
    /\ [][\A t \in TickIds, i \in Tokens :
            (Item(t, i).pc = "fetch" /\ ticks'[t].items[i].pc = "failed"
                                    /\ ticks'[t].items[i].err = "price")
                => /\ ticks'[t].pc = "items"
                   /\ \A j \in Tokens \ {i} : ticks'[t].items[j] = Item(t, j)
                   /\ UNCHANGED <<db, isProcessing>>
         ]_vars

\* token 1's price source call failed; tokens 2 and 3 were published and saved
C17_Witness ==
    \E t \in TickIds :
        /\ ticks[t].pc = "done"
        /\ ticks[t].failures = 1
        /\ Item(t, 1).err = "price" /\ Item(t, 1).sends = 0 /\ db[1] = Item(t, 1).old
        /\ \A i \in {2, 3} :
              /\ Item(t, i).pc = "saved"
              /\ Item(t, i).published
              /\ db[i] = Item(t, i).new

\* C18: a token whose save failed after its publish succeeded stays published
\* with its stored price the one loaded; its save was issued exactly once and
\* its pipeline does nothing more in the tick (no further send, no further
\* save); the failure changes no other token's pipeline; the ended tick counts
\* it among its failures.
C18_PersistFailureGap ==
    /\ [](\A t \in TickIds, i \in Tokens :
            LET it == Item(t, i) IN
            /\ it.saves <= 1
            /\ it.err = "save" =>
                  /\ it.pc = "failed"
                  /\ it.event /\ it.published /\ it.sends \in 1..maxRetries
                  /\ it.saves = 1
                  /\ it.new # it.old /\ db[i] = it.old
                  /\ ticks[t].pc = "done" =>
                        ticks[t].failures =
                            1 + Cardinality({j \in Tokens \ {i} : Item(t, j).pc = "failed"}))
    /\ [][\A t \in TickIds, i \in Tokens :
            /\ (Item(t, i).pc = "saving" /\ ticks'[t].items[i].pc = "failed")
                  => /\ ticks'[t].items[i] = [Item(t, i) EXCEPT !.pc = "failed", !.err = "save"]
                     /\ ticks'[t].pc = "items"
                     /\ \A j \in Tokens \ {i} : ticks'[t].items[j] = Item(t, j)
                     /\ UNCHANGED <<db, isProcessing>>
            /\ (Item(t, i).err = "save" /\ ticks'[t].pc \in {"items", "done"})
                  => ticks'[t].items[i] = Item(t, i)
         ]_vars

\* token 2 was published but its save failed; tokens 1 and 3 were saved
C18_Witness ==
    \E t \in TickIds :
        /\ ticks[t].pc = "done"
        /\ ticks[t].failures = 1
        /\ Item(t, 2).err = "save"
        /\ Item(t, 2).published
        /\ db[2] = Item(t, 2).old
        /\ db[2] # Item(t, 2).new
        /\ \A i \in {1, 3} : Item(t, i).pc = "saved" /\ db[i] = Item(t, i).new

\* C19: the record a tick logs for a token whose save failed after its publish
\* succeeded differs in kind (level and message) from every record logged for
\* a token whose price source call or publish failed.
C19_PersistFailureLoggedDistinctly ==
    \A t, u \in TickIds :
        \A i \in DOMAIN ticks[t].log, j \in DOMAIN ticks[u].log :
            (/\ ticks[t].log[i].reason = "save"
             /\ ticks[u].log[j].reason \in {"price", "exhausted", "notconnected"})
                => <<ticks[t].log[i].level, ticks[t].log[i].kind>>
                       # <<ticks[u].log[j].level, ticks[u].log[j].kind>>

\* C20: every onModuleDestroy() of the producer that started a close returns
\* with the producer marked not connected, however the close ended (closed,
\* error, or the 10 s timeout); no such call throws, and the producer stays
\* not connected afterwards.
C20_ForcedTeardown ==
    /\ [](\A k \in KafkaDestroyIds :
            /\ kafkaDestroys[k].pc # "threw"
            /\ kafkaDestroys[k].outcome \in CloseOutcomes => ~isConnected)
    /\ [][\A k \in KafkaDestroyIds :
            (kafkaDestroys[k].pc = "closing" /\ kafkaDestroys'[k].pc # "closing")
                => /\ ~isConnected'
                   /\ kafkaDestroys'[k].pc = "returned"
                   /\ kafkaDestroys'[k].outcome \in CloseOutcomes
         ]_vars

\* the close of a connected producer ended in the timeout and the call returned
C20_Witness ==
    \E k \in KafkaDestroyIds :
        /\ kafkaDestroys[k].pc = "returned"
        /\ kafkaDestroys[k].outcome = "timeout"
        /\ closes > 0
        /\ ~isConnected

\* C21: over any number of onModuleDestroy() calls of the producer, overlapping
\* ones included, producer.disconnect() is called at most once; a call that
\* finds the producer not connected changes neither the flag nor the broker.
C21_DisconnectIdempotent ==
    /\ [](closes <= 1)
    /\ [][\A k \in KafkaDestroyIds :
            (kafkaDestroys'[k] # kafkaDestroys[k] /\ kafkaDestroys'[k].outcome = "skipped")
                => (~isConnected /\ UNCHANGED <<isConnected, closes, connectPc>>)
         ]_vars

\* C22: onModuleInit() ends either returned with the producer connected or
\* thrown with it not connected; after a failed connect the producer stays not
\* connected, and every publish issued from then on is rejected at once with
\* no send.
C22_ConnectFailureFatal ==
    /\ [](connectPc = "failed" => ~isConnected)
    /\ [][ /\ (connectPc = "connecting" /\ connectPc' # "connecting")
                => \/ connectPc' = "connected" /\ isConnected'
                   \/ connectPc' = "failed" /\ ~isConnected'
           /\ connectPc = "failed" =>
                /\ connectPc' = "failed"
                /\ \A t \in TickIds, i \in Tokens :
                      (Item(t, i).pc = "fetch" /\ ticks'[t].items[i].event)
                          => /\ ticks'[t].items[i].pc = "failed"
                             /\ ticks'[t].items[i].err = "notconnected"
                             /\ ticks'[t].items[i].sends = 0
         ]_vars

\* the connect failed and a later publish was refused without a send
C22_Witness ==
    /\ connectPc = "failed"
    /\ ~isConnected
    /\ \E t \in TickIds, i \in Tokens :
          /\ Item(t, i).err = "notconnected"
          /\ Item(t, i).sends = 0
          /\ Item(t, i).new # Item(t, i).old

\* C23: every send made for a token's event carries the token's id as key,
\* and all sends of one publish call carry one and the same key and payload.
C23_RoutingKeyAndPayload ==
    \A t \in TickIds, i \in Tokens :
        LET it == Item(t, i) IN
        /\ it.sends > 0 => Cardinality(it.sent) = 1
        /\ it.sends = 0 => it.sent = {}
        /\ \A m \in it.sent :
              /\ m.key = i
              /\ m.value = Serialize([tokenId |-> i, oldPrice |-> it.old, newPrice |-> it.new])

\* token 2 was sent three times, token 3 once, each under its own id
C23_Witness ==
    \E t \in TickIds :
        /\ Item(t, 2).sends = 3
        /\ \A m \in Item(t, 2).sent : m.key = 2
        /\ Item(t, 3).sends = 1
        /\ \A m \in Item(t, 3).sent : m.key = 3
        /\ Item(t, 2).sent # Item(t, 3).sent

\* a pipeline that has begun and not yet settled
Pending(it) == it.pc \in {"fetch", "sending", "backoff", "saving"}

\* C24 as stated: whenever a stop() call returns without the forced-shutdown
\* warning, no token's pipeline is pending and every token that was published
\* and saved has its new price in the store.
C24_Original ==
    [][\A s \in StopIds :
          (StopReturns(s) /\ ~stops'[s].forced) =>
              \A t \in TickIds, i \in Tokens :
                  /\ ~Pending(ticks'[t].items[i])
                  /\ ticks'[t].items[i].pc = "saved" => db'[i] = ticks'[t].items[i].new
      ]_vars

\* C24 amended: the same for every stop() call that found the scheduler
\* running; such a call returns unforced only with the flag clear and the tick
\* ended.
C24_StopAfterSave ==
    [][\A s \in StopIds :
          (StopReturns(s) /\ stops'[s].ran /\ ~stops'[s].forced) =>
              /\ ~isProcessing'
              /\ \A t \in TickIds :
                    /\ ticks'[t].pc \notin {"loading", "items"}
                    /\ \A i \in Tokens :
                          /\ ~Pending(ticks'[t].items[i])
                          /\ ticks'[t].items[i].pc = "saved"
                                => db'[i] = ticks'[t].items[i].new
      ]_vars

\* start(), a changed price published and saved, and a stop() that waited for
\* it and returned unforced: the store holds the new price
C24_Witness ==
    \E s \in StopIds, t \in TickIds, i \in Tokens :
        /\ stops[s].pc = "returned" /\ stops[s].ran /\ stops[s].waited /\ ~stops[s].forced
        /\ ~isRunning /\ ~isProcessing
        /\ ticks[t].pc = "done"
        /\ Item(t, i).pc = "saved"
        /\ Item(t, i).new # Item(t, i).old
        /\ db[i] = Item(t, i).new

Writing(it) == it.pc \in {"sending", "backoff", "saving"}

\* C26: in every tick each token has at most one publish call and at most one
\* save, the save only after the publish call; at no time are writes of two
\* ticks in flight for the same token.
C26_NoDuplicateWrites ==
    /\ \A t \in TickIds, i \in Tokens :
          /\ Item(t, i).calls <= 1
          /\ Item(t, i).saves <= 1
          /\ Item(t, i).saves <= Item(t, i).calls
    /\ \A i \in Tokens : Cardinality({t \in TickIds : Writing(Item(t, i))}) <= 1

\* a save is in flight in a tick of a restarted scheduler while the stop()
\* before the restart is still waiting
C26_Witness ==
    /\ isRunning
    /\ Waiting # {}
    /\ \E t \in TickIds, i \in Tokens :
          /\ Item(t, i).pc = "saving"
          /\ Item(t, i).calls = 1
          /\ Item(t, i).saves = 1

\* C27: whenever the in-progress flag is clear, no pipeline of any tick is
\* pending (price fetch, send, backoff wait or save); the step that ends a tick
\* and clears the flag finds every pipeline of the tick settled.
C27_EndsAfterAllSettled ==
    /\ [](~isProcessing => \A t \in TickIds, i \in Tokens : ~Pending(Item(t, i)))
    /\ [][\A t \in TickIds :
            (ticks[t].pc = "items" /\ ticks'[t].pc # "items")
                => /\ \A i \in Tokens : Settled(Item(t, i))
                   /\ ticks'[t].items = ticks[t].items
                   /\ ~isProcessing'
         ]_vars

\* the flag is clear after a tick in which one publish went through its
\* backoffs and gave up while the other tokens were saved
C27_Witness ==
    /\ ~isProcessing
    /\ \E t \in TickIds :
          /\ ticks[t].pc = "done"
          /\ Item(t, 1).err = "exhausted" /\ Item(t, 1).waited = 3000
          /\ Item(t, 2).pc = "saved"
          /\ Item(t, 3).pc = "saved" /\ Item(t, 3).sends = 2

\* C28: no step of a stop() or onModuleDestroy() call changes a tick, the store
\* or the in-progress flag; whatever shutdown calls have returned, every
\* pending pipeline can take its next step and a tick whose pipelines have all
\* settled can end; the step that ends a tick clears the flag.
C28_NoCancellation ==
    /\ [][(stops' # stops \/ destroys' # destroys \/ shutdownPromise' # shutdownPromise)
              => UNCHANGED <<ticks, db, isProcessing>>]_vars
    /\ [](\A t \in TickIds :
            /\ ticks[t].pc = "loading" => (ENABLED LoadOk(t) /\ ENABLED LoadFail(t))
            /\ ticks[t].pc = "items" =>
                  /\ AllSettled(ticks[t].items) => ENABLED TickComplete(t)
                  /\ \A i \in Tokens :
                        /\ Item(t, i).pc = "fetch" => ENABLED PriceFail(t, i)
                        /\ Item(t, i).pc = "sending" =>
                              (ENABLED SendOk(t, i) /\ ENABLED SendFail(t, i))
                        /\ Item(t, i).pc = "backoff" => ENABLED RetryTimer(t, i)
                        /\ Item(t, i).pc = "saving" =>
                              (ENABLED SaveOk(t, i) /\ ENABLED SaveFail(t, i)))
    /\ [][\A t \in TickIds : TickEnds(t) => ~isProcessing']_vars

\* a stop() has returned forced and the tick's save is still to come
C28_Witness ==
    /\ \E s \in StopIds : stops[s].pc = "returned" /\ stops[s].forced
    /\ ~isRunning
    /\ isProcessing
    /\ \E t \in TickIds, i \in Tokens : Item(t, i).pc = "saving" /\ db[i] # Item(t, i).new

\* C29: a publish makes at most 3 sends and waits only after its first and
\* second; when every pending call returns, a publish in flight always comes
\* to its end and a tick in progress always ends with the flag released.
C29_NothingRetriesForever ==
    /\ [](\A t \in TickIds, i \in Tokens :
            /\ Item(t, i).sends <= maxRetries
            /\ Item(t, i).attempt <= maxRetries
            /\ Item(t, i).pc = "backoff" => Item(t, i).attempt <= maxRetries - 1)
    /\ \A t \in TickIds, i \in 1..NumLifecycleTokens :
          (Item(t, i).pc \in {"sending", "backoff"})
              ~> (Item(t, i).pc \notin {"sending", "backoff"})
    /\ \A t \in TickIds : Active(t) ~> (~Active(t) /\ ~isProcessing)
    /\ isProcessing ~> ~isProcessing

\* a tick has ended and released the flag after a publish gave up
C29_Witness ==
    /\ ~isProcessing
    /\ \E t \in TickIds, i \in Tokens :
          /\ ticks[t].pc = "done"
          /\ Item(t, i).pc = "failed"
          /\ Item(t, i).sends = maxRetries
          /\ Item(t, i).waited = BackoffDelay(1) + BackoffDelay(2)

\* C30: the stop() behind onModuleDestroy() is begun once and for all: its
\* promise is never replaced; an onModuleDestroy() call that finds it begun
\* runs no stop() of its own and changes nothing of the scheduler; a call
\* waits exactly while that one stop() waits and completes in the step in
\* which that stop() returns.
C30_SharedShutdown ==
    /\ [](\A d \in DestroyIds :
            destroys[d] = "awaiting" =>
                (shutdownPromise # 0 /\ stops[shutdownPromise].pc = "waiting"))
    /\ [][ /\ shutdownPromise # 0 => shutdownPromise' = shutdownPromise
           /\ \A d \in DestroyIds :
                 /\ (destroys[d] = "none" /\ destroys'[d] = "awaiting" /\ shutdownPromise # 0)
                       => UNCHANGED <<stops, schedVars>>
                 /\ (destroys[d] = "awaiting" /\ destroys'[d] = "returned")
                       => (StopReturns(shutdownPromise) /\ stops'[shutdownPromise].ran)
         ]_vars

\* two onModuleDestroy() calls await the one stop(), which is in its wait loop
C30_Witness ==
    /\ shutdownPromise # 0
    /\ \A d \in DestroyIds : destroys[d] = "awaiting"
    /\ Waiting = {shutdownPromise}
    /\ stops[shutdownPromise].attempts > 0

\* C31: in every reachable state the interval timer is armed exactly when the
\* running flag is set, the armed timers are exactly the one the timer field
\* holds, and at most one interval timer is armed.
C31_TimerMatchesRunning ==
    /\ isRunning <=> timer # 0
    /\ isRunning <=> timers # {}
    /\ timers = {timer} \ {0}
    /\ Cardinality(timers) <= 1

\* the scheduler runs again, with one timer, after a stop() that waited for a
\* tick, an onModuleDestroy() and a refused start()
C31_Witness ==
    /\ isRunning
    /\ timers = {timer}
    /\ startWarnings > 0
    /\ shutdownPromise # 0
    /\ \E s \in StopIds : stops[s].pc = "returned" /\ stops[s].ran /\ stops[s].waited
    /\ \E t \in TickIds : ticks[t].pc = "done"

\* C32: whenever a stop() call that found the scheduler running returns, the
\* scheduler is not running and no timer is armed.
C32_StopEndsStopped ==
    [][\A s \in StopIds :
          (StopReturns(s) /\ stops'[s].ran) =>
              (~isRunning' /\ timer' = 0 /\ timers' = {})
      ]_vars

\* a step in which onModuleDestroy() call d returns
DestroyReturns(d) == destroys[d] # "returned" /\ destroys'[d] = "returned"

\* C33: whenever an onModuleDestroy() call returns, no timer is armed, and no
\* tick is in progress unless the stop() behind the call gave up after its
\* full wait of 30 polls.
C33_DestroyCompletesShutdown ==
    [][\A d \in DestroyIds :
          DestroyReturns(d) =>
              /\ timer' = 0 /\ timers' = {}
              /\ isProcessing' => stops'[shutdownPromise'].forced
      ]_vars

\* a step in which producer.send() is called for token i in tick t
SendIssued(t, i) == ticks'[t].items[i].sends > ticks[t].items[i].sends

\* C34: producer.send() is called, for a first attempt or for a retry, only
\* while the producer is marked connected.
C34_NoSendWhileDisconnected ==
    [][\A t \in TickIds, i \in Tokens : SendIssued(t, i) => isConnected]_vars

\* C35: a failed send, whether it is followed by a backoff or ends the publish
\* after the third attempt, leaves the producer marked connected; every publish
\* call begins at attempt 1 whatever other calls have failed before it; each
\* call counts its own attempts, one per send of its own, and gives up only
\* after 3 sends of its own.
C35_FailureKeepsConnection ==
    /\ [](\A t \in TickIds, i \in Tokens :
            LET it == Item(t, i) IN
            /\ it.sends > 0 => isConnected
            /\ it.attempt = it.sends
            /\ it.err = "exhausted" => it.sends = maxRetries)
    /\ [][\A t \in TickIds, i \in Tokens :
            /\ (Item(t, i).pc = "sending" /\ ticks'[t].items[i].pc \in {"backoff", "failed"})
                  => (isConnected' /\ UNCHANGED <<isConnected, connectPc, kafkaDestroys, closes>>)
            /\ (Item(t, i).pc = "fetch" /\ ticks'[t].items[i].pc = "sending")
                  => (ticks'[t].items[i].attempt = 1 /\ ticks'[t].items[i].sends = 1)
            /\ ticks'[t].items[i].attempt > Item(t, i).attempt
                  => \A j \in Tokens \ {i} : ticks'[t].items[j] = Item(t, j)
         ]_vars

\* the producer is connected after one publish gave up at its third send, while
\* another is at its first attempt and a third waits after its second
C35_Witness ==
    /\ isConnected
    /\ \E t \in TickIds :
          /\ Item(t, 1).err = "exhausted" /\ Item(t, 1).sends = 3
          /\ Item(t, 2).pc = "sending" /\ Item(t, 2).attempt = 1
          /\ Item(t, 3).pc = "backoff" /\ Item(t, 3).attempt = 2

\* the old and the new price carried by a serialized event
EventOldPrice(m) == m.value[2]

EventNewPrice(m) == m.value[3]

\* C36: a pipeline starts with the price its tick loaded from the store; every
\* event sent for a token carries that price as old price and the price
\* obtained from the price source, different from it, as new price; until the
\* save the store keeps the loaded price, and the save writes the new price of
\* the event.
C36_EventAndSaveAgree ==
    /\ [](\A t \in TickIds, i \in Tokens :
            LET it == Item(t, i) IN
            /\ it.event => it.old # it.new
            /\ \A m \in it.sent :
                  /\ EventOldPrice(m) = it.old
                  /\ EventNewPrice(m) = it.new
                  /\ EventOldPrice(m) # EventNewPrice(m)
            /\ Pending(it) => db[i] = it.old
            /\ it.pc = "saved" => it.sent # {})
    /\ [][\A t \in TickIds, i \in Tokens :
            /\ (ticks[t].pc = "loading" /\ ticks'[t].pc = "items")
                  => ticks'[t].items[i].old = db[i]
            /\ (Item(t, i).pc = "saving" /\ ticks'[t].items[i].pc = "saved")
                  => /\ ticks'[t].items[i].sent = Item(t, i).sent
                     /\ \A m \in Item(t, i).sent : db'[i] = EventNewPrice(m)
         ]_vars

\* a token's event was sent twice with the loaded and the obtained price, and
\* the save has written the obtained price over the loaded one
C36_Witness ==
    \E t \in TickIds, i \in Tokens :
        /\ Item(t, i).pc = "saved"
        /\ Item(t, i).sends = 2
        /\ Item(t, i).sent = {[key |-> i, value |-> <<i, Item(t, i).old, db[i]>>]}
        /\ db[i] # Item(t, i).old

\* a step in which stop() call s is made
StopCalled(s) == stops[s].pc # "waiting" /\ stops'[s] # stops[s]

\* C37: a stop() call made while the scheduler is not running returns in the
\* same step without entering the wait loop, and leaves the running flag, the
\* timer, the in-progress flag, the ticks and the store as they were.
C37_StopWhileStoppedNoOp ==
    [][\A s \in StopIds :
          (StopCalled(s) /\ ~isRunning) =>
              /\ stops'[s].pc = "returned"
              /\ ~stops'[s].ran /\ ~stops'[s].waited /\ ~stops'[s].forced
              /\ UNCHANGED <<isRunning, timer, timers, isProcessing, ticks, db>>
      ]_vars

\* after a forced shutdown a further stop() has returned at once, the old tick
\* still being in progress
C37_Witness ==
    /\ shutdownPromise # 0
    /\ stops[shutdownPromise].pc = "returned" /\ stops[shutdownPromise].forced
    /\ ~isRunning /\ timers = {}
    /\ isProcessing /\ ActiveTicks # {}
    /\ \E s \in StopIds \ {shutdownPromise} : stops[s].pc = "returned" /\ ~stops[s].ran

\* C38: a start() made on a stopped scheduler while a tick is still in progress
\* sets the scheduler running and arms a new timer, begins no tick and logs
\* nothing; while the scheduler runs, a tick begins only at a timer firing that
\* finds the in-progress flag clear, and a firing that finds it set begins none.
C38_RestartDuringLeftoverTick ==
    [][ /\ (StartStep /\ isProcessing) =>
              /\ isRunning' /\ timer' # 0 /\ timers' = {timer'}
              /\ ~TickBegins
              /\ UNCHANGED <<ticks, isProcessing, skipWarnings, startWarnings, db>>
        /\ (TickBegins /\ isRunning) =>
              /\ ~isProcessing
              /\ timers # {}
              /\ UNCHANGED <<isRunning, timer, timers>>
        /\ (TickBegins /\ ~isRunning) => (StartStep /\ ~isProcessing)
        /\ skipWarnings' > skipWarnings => (isProcessing /\ ~TickBegins /\ UNCHANGED ticks)
      ]_vars

\* the scheduler runs again with a timer after a forced shutdown, one tick is
\* in progress and a firing of the new timer has been skipped
C38_Witness ==
    /\ isRunning /\ timer # 0 /\ timers = {timer}
    /\ \E s \in StopIds : stops[s].pc = "returned" /\ stops[s].forced
    /\ isProcessing
    /\ Cardinality(ActiveTicks) = 1
    /\ skipWarnings > 0

\* C39: no execution of updatePrices() ends by raising, whether its load fails
\* or any of its pipelines fail: it ends as done or as a logged load failure,
\* so no error handler of a caller runs; the step that ends a tick leaves the
\* running flag and the timer as they were.
C39_TickNeverRaises ==
    /\ [](\A t \in TickIds : ticks[t].pc # "threw")
    /\ [][\A t \in TickIds :
            TickEnds(t) =>
                /\ ticks'[t].pc \in {"done", "loadfailed"}
                /\ ticks[t].pc = "loading" => ticks'[t].pc = "loadfailed"
                /\ ticks[t].pc = "items" => ticks'[t].pc = "done"
                /\ UNCHANGED <<isRunning, timer, timers>>
         ]_vars

\* a tick has ended in which all three pipelines failed, each at another
\* stage, and the scheduler still runs with its timer
C39_Witness ==
    /\ isRunning /\ timer # 0 /\ timers = {timer}
    /\ ~isProcessing
    /\ \E t \in TickIds :
          /\ ticks[t].pc = "done"
          /\ ticks[t].failures = 3
          /\ {Item(t, i).err : i \in Tokens} = {"price", "exhausted", "save"}

====
